---------------------------- MODULE Spec2Model ----------------------------
(***************************************************************************)
(* info-pulse: the Summarizer (src/src/info_pulse/summarizer.py), the      *)
(* NewsFetcher (src/src/info_pulse/news_fetcher.py), SiteGenerator.generate *)
(* (src/src/info_pulse/site_generator.py) and main (src/main.py) as state  *)
(* machines.                                                               *)
(*                                                                         *)
(* Text is a sequence of one-character strings.  Python's None, a missing  *)
(* dictionary key and a raised exception are explicit tags of the values   *)
(* that can carry them.  The language model, the feed parser and the       *)
(* search API are the environment: every value they can hand back is       *)
(* chosen with \E from a small set, one loop iteration at a time.          *)
(***************************************************************************)
EXTENDS Integers, Sequences, FiniteSets, TLC

VARIABLES
    \* ---- Summarizer.summarize_all / summarize_batch ----
    articles_by_topic,  \* the argument: sequence of [topic, articles] items
    sum_pc,             \* position: "topic", "call", "items", "done"
    sum_t,              \* summarize_all: 1-based position in articles_by_topic
    batch_i,            \* summarize_batch: the loop variable i (0-based offset)
    summarized,         \* summarize_batch: the local list being built
    sum_results,        \* summarize_all: the results dict (topic -> list)
    content,            \* what the chat-completion call of this batch gave
    item,               \* the loop variable of "for item in data.get(...)"
    n_items,            \* elements of the current response already iterated
    exc,                \* the exception the last step raised ("" when none)
    \* ---- NewsFetcher ----
    topics_config,      \* self.topics_config: [topics, settings]
    news_api_key,       \* self.news_api_key
    seen_ids,           \* self.seen_ids
    now,                \* the clock datetime.now(timezone.utc) reads
    pc,                 \* position: "idle", "topic", "feed", "entries",
                        \*           "api_items", "done"
    cutoff_date,        \* fetch_all: cutoff_date
    results,            \* fetch_all: the results dict (topic name -> list)
    topic_i,            \* fetch_all: 1-based position in the topics list
    feed_i,             \* fetch_all: 1-based position in rss_feeds
    topic_articles,     \* fetch_all: topic_articles
    articles,           \* fetch_rss_feed / fetch_news_api: the local list
    article,            \* fetch_rss_feed / fetch_news_api: the local article
    fetched,            \* history: <<topic_i, feed_i>> of every
                        \* fetch_rss_feed call of this fetch_all
    failed,             \* history: those of them in which an exception
                        \* was caught
    delivered,          \* history: entries and items iterated so far
    api_calls,          \* history: <<topic_i, requested>> of every
                        \* fetch_news_api call of this fetch_all;
                        \* requested: client.get was called
    dropped,            \* history: ids of the articles the recency filter
                        \* or the truncation left out of a topic's list
    \* ---- main (main.py) and SiteGenerator.generate ----
    openrouter_api_key, \* os.getenv("OPENROUTER_API_KEY")
    skip_summarize,     \* args.skip_summarize
    main_pc,            \* position: "start", "fetch", "summarize",
                        \*           "generate", "returned", "exit"
    main_call,          \* which of the script's calls of main() is running
    exit_code,          \* the exit status of the process (Running until it ends)
    constructed,        \* the classes main has instantiated in this call
    summarized_by_topic,\* main: summarized_by_topic
    gen_pc,             \* generate: "idle", "render", "write", "json",
                        \*           "static", "done", "raised"
    written,            \* history: what this generate call wrote
    topics_file,        \* what yaml.safe_load gives for args.topics_file
    env_news_api_key    \* os.getenv("NEWS_API_KEY")

sum_vars == <<articles_by_topic, sum_pc, sum_t, batch_i, summarized,
              sum_results, content, item, n_items, exc>>

fetch_vars == <<topics_config, news_api_key, seen_ids, now, pc, cutoff_date,
                results, topic_i, feed_i, topic_articles, articles, article,
                fetched, failed, delivered, api_calls, dropped>>

main_vars == <<openrouter_api_key, skip_summarize, main_pc, main_call,
               exit_code, constructed, summarized_by_topic, gen_pc, written,
               topics_file, env_news_api_key>>

vars == <<sum_vars, fetch_vars, main_vars>>

-----------------------------------------------------------------------------
(* Bounds of the model *)

\* Entries and items delivered to one call of main.
MainMaxEntries == 1
\* Elements iterated in one parsed response.
MaxItems == 2
\* Articles in the whole input mapping of summarize_all.
MaxArticles == 6
\* Values of the modelled digest (Md5Hex12).
DigestSpace == 97
\* Entries and items the feeds and the search API deliver to one NewsFetcher.
MaxEntries == 2
\* Ticks the clock advances during a run.
MaxTicks == 1
\* Clock ticks in one day.
TicksPerDay == 2

(* Program constants *)

\* summarize_batch(articles, batch_size=5)
BatchSize == 5
\* settings.get("max_articles_per_topic", 10), settings.get("keep_days", 2)
DefaultMaxArticles == 10
DefaultKeepDays == 2
\* "if len(topic_articles) < 5 and keywords"
FallbackBelow == 5

-----------------------------------------------------------------------------
(* Python helpers *)

Min(a, b) == IF a < b THEN a ELSE b

\* seq[lo:hi] of Python, 0-based and clamped.
Slice(seq, lo, hi) == SubSeq(seq, lo + 1, Min(hi, Len(seq)))

\* The value a Python list subscript seq[idx] yields: negative subscripts
\* count from the end, anything else out of range raises IndexError.
IndexError == [raised |-> "IndexError"]
PyIndex(seq, idx) ==
    IF idx >= 0 /\ idx < Len(seq) THEN seq[idx + 1]
    ELSE IF idx < 0 /\ idx + Len(seq) >= 0 THEN seq[idx + Len(seq) + 1]
    ELSE IndexError

\* The elements of a list.
Range(list) == {list[k] : k \in 1..Len(list)}

\* d[k] = v on a dict, and the empty dict.
Put(d, k, v) == [x \in DOMAIN d \cup {k} |-> IF x = k THEN v ELSE d[x]]
EmptyDict == [x \in {} |-> <<>>]

-----------------------------------------------------------------------------
(* Article (news_fetcher.py) *)

Alphabet == <<" ", "a", "b", "c", "d", "e", "f", "g", "h", "s", "x", "y">>
CharCode(c) == CHOOSE k \in 1..Len(Alphabet) : Alphabet[k] = c

\* hashlib.md5(content.encode()).hexdigest()[:12]: a deterministic digest of
\* the text, many-to-one.  The digest is a polynomial fold into DigestSpace
\* values in place of the 16^12 values of twelve hex digits.
RECURSIVE Fold(_, _)
Fold(text, h) ==
    IF text = <<>> THEN h
    ELSE Fold(Tail(text), (h * 31 + CharCode(Head(text))) % DigestSpace)
Md5Hex12(text) == Fold(text, 7)

\* The local "article" before the first assignment to it.
NoArticle ==
    [title |-> <<>>, link |-> <<>>, source |-> "", published |-> 0,
     summary |-> <<>>, topic |-> "", id |-> -1]

\* Article.__post_init__ with id left at its default "".
Article(title, link, source, published, summary, topic) ==
    [title |-> title, link |-> link, source |-> source,
     published |-> published, summary |-> summary, topic |-> topic,
     id |-> Md5Hex12(title \o link)]

-----------------------------------------------------------------------------
(* NewsFetcher (news_fetcher.py) *)

\* dict.get(key, default)
Get(d, k, default) == IF k \in DOMAIN d THEN d[k] ELSE default

\* str.strip()
RECURSIVE LStrip(_)
LStrip(text) ==
    IF text # <<>> /\ Head(text) = " " THEN LStrip(Tail(text)) ELSE text
RECURSIVE RStrip(_)
RStrip(text) ==
    IF text # <<>> /\ text[Len(text)] = " "
    THEN RStrip(SubSeq(text, 1, Len(text) - 1)) ELSE text
Strip(text) == RStrip(LStrip(text))

\* The clock at construction, and the cutoff of a run started then with the
\* default keep_days: the dates of the catalogue lie around it.
StartTime == 0
Cutoff0   == StartTime - DefaultKeepDays * TicksPerDay

\* A JSON null / a key holding None where text is expected.
NoneText == <<"<None>">>
Removed  == <<"[Removed]">>

\* What feeds deliver: entries [title, link, has_date, date, summary].
\* has_date = FALSE: no date field parses.
Entry(title, link, has_date, date) ==
    [title |-> title, link |-> link, has_date |-> has_date, date |-> date,
     summary |-> <<"s">>]
FeedEntries ==
    { Entry(<<"a">>, <<"x">>, TRUE, Cutoff0 - 1),
      Entry(<<"b">>, <<"x">>, TRUE, Cutoff0),
      Entry(<<" ", "d", " ">>, <<"x">>, FALSE, 0),
      Entry(<<"h", "b">>, <<"x">>, TRUE, Cutoff0 + 3),
      Entry(<<" ">>, <<"x">>, TRUE, Cutoff0 + 1),
      Entry(<<"a">>, <<>>, TRUE, Cutoff0 + 1),
      Entry(NoneText, <<"x">>, TRUE, Cutoff0 + 1) }

\* What the search API delivers: items [title, url, has_date, date,
\* description].  has_date = FALSE: publishedAt is missing or raises
\* ValueError in fromisoformat.
ApiItem(title, url, has_date, date, description) ==
    [title |-> title, url |-> url, has_date |-> has_date, date |-> date,
     description |-> description]
ApiItems ==
    { ApiItem(<<"f">>, <<"x">>, TRUE, Cutoff0, <<"s">>),
      ApiItem(<<"a">>, <<"x">>, TRUE, Cutoff0 + 2, <<"s">>),
      ApiItem(Removed, <<"x">>, TRUE, Cutoff0 + 1, <<"s">>),
      ApiItem(<<"e">>, <<"y">>, TRUE, Cutoff0 + 1, NoneText),
      ApiItem(NoneText, <<"x">>, TRUE, Cutoff0 + 1, <<"s">>) }

\* _parse_published_date: the first date field that parses, else now.
ParsePublishedDate(entry, clock) == IF entry.has_date THEN entry.date ELSE clock

\* _extract_summary: the catalogue's summaries are short plain text, which
\* the tag regex and the 500-character limit leave as they are.
ExtractSummary(entry) == entry.summary

\* _clean_google_news_url returns its argument on both branches.
CleanGoogleNewsUrl(url) == url

\* The topics file: up to two topics with up to two feeds between them.
\* Feed j of a topic is named FeedNames[j].
FeedNames  == <<"f1", "f2">>
TopicNames == <<"NBA", "Lakers">>
FeedLists(n) ==
    {[j \in 1..n |-> [url |-> u[j], name |-> FeedNames[j]]] :
        u \in [1..n -> {"", "u"}]}
TopicsWith(name) ==
    {[name |-> name, keywords |-> kw, rss_feeds |-> fl] :
        kw \in {<<>>, <<"lakers">>},
        fl \in UNION {FeedLists(n) : n \in 0..Len(FeedNames)}}
TopicLists ==
    {<<>>}
    \cup {<<t>> : t \in TopicsWith(TopicNames[1])}
    \cup {<<t1, t2>> : t1 \in TopicsWith(TopicNames[1]),
                       t2 \in TopicsWith(TopicNames[2])}
Settings ==
    {EmptyDict}
    \cup {[k \in {"max_articles_per_topic", "keep_days"} |->
             IF k = "keep_days" THEN 1 ELSE m] : m \in {1, 2}}
FeedCount(topics) ==
    IF topics = <<>> THEN 0
    ELSE IF Len(topics) = 1 THEN Len(topics[1].rss_feeds)
    ELSE Len(topics[1].rss_feeds) + Len(topics[2].rss_feeds)
Configs ==
    {[topics |-> t, settings |-> st] :
        t \in {tl \in TopicLists : FeedCount(tl) <= Len(FeedNames)}, st \in Settings}

NoKey == "<None>"

Topics      == Get(topics_config, "topics", <<>>)
Topic       == Topics[topic_i]
MaxArticlesSetting == Get(Get(topics_config, "settings", EmptyDict),
                          "max_articles_per_topic", DefaultMaxArticles)
KeepDays    == Get(Get(topics_config, "settings", EmptyDict),
                   "keep_days", DefaultKeepDays)

\* timedelta(days=keep_days)
Days(n) == n * TicksPerDay

\* Mutant of Recent: the boundary is exclusive.
RecentStrict(a, cutoff) == a.published > cutoff

\* "a.published >= cutoff_date" (line 260).  Every timestamp is a point of
\* the one clock: dates are taken to carry a time zone, as cutoff_date does.
Recent(a, cutoff) == a.published >= cutoff

RECURSIVE Filter(_, _)
Filter(list, cutoff) ==
    IF list = <<>> THEN <<>>
    ELSE IF Recent(Head(list), cutoff)
         THEN <<Head(list)>> \o Filter(Tail(list), cutoff)
         ELSE Filter(Tail(list), cutoff)

\* list.sort(key=lambda x: x.published, reverse=True): stable, newest
\* first, articles of equal date in their former order.
RECURSIVE InsertDesc(_, _)
InsertDesc(a, sorted) ==
    IF sorted = <<>> THEN <<a>>
    ELSE IF Head(sorted).published >= a.published
         THEN <<Head(sorted)>> \o InsertDesc(a, Tail(sorted))
         ELSE <<a>> \o sorted
\* Mutant of SortDesc: the list stays in delivery order.
SortDescNone(list) == list

RECURSIVE SortDesc(_)
SortDesc(list) ==
    IF list = <<>> THEN <<>>
    ELSE InsertDesc(list[Len(list)], SortDesc(SubSeq(list, 1, Len(list) - 1)))

\* Mutant of Truncate: the last n articles are kept.
TruncateTail(list, n) ==
    SubSeq(list, Len(list) - Min(n, Len(list)) + 1, Len(list))

\* topic_articles[:max_articles]
Truncate(list, n) == Slice(list, 0, n)

\* Mutant of Dedup: the article is kept whether or not its id was seen.
DedupKeepsAll(a, list, seen) ==
    [articles |-> Append(list, a), seen_ids |-> seen \cup {a.id}]

\* Lines 152-155 and 217-219: the list and the set after article a.
Dedup(a, list, seen) ==
    IF a.id \notin seen
    THEN [articles |-> Append(list, a), seen_ids |-> seen \cup {a.id}]
    ELSE [articles |-> list, seen_ids |-> seen]

\* Mutant of FetchCatches: only a failed download is caught.
FetchCatchesDownload(e) == e \in {"URLError", "ConnectError"}

\* Mutant of NeedsFallback: the keywords are not looked at.
NeedsFallbackAnyTopic(list, keywords) == Len(list) < FallbackBelow

\* "if len(topic_articles) < 5 and keywords" (line 254)
NeedsFallback(list, keywords) ==
    Len(list) < FallbackBelow /\ keywords # <<>>

\* "except Exception" (lines 159 and 223)
FetchCatches(e) == e \in {"AttributeError", "TypeError", "URLError",
                          "ConnectError", "HTTPStatusError", "JSONDecodeError"}

\* The exit status while the process runs, after a normal end, and after
\* sys.exit(1) or an uncaught exception.
Running   == "running"
ExitOk    == "0"
ExitError == "1"

\* main is not running: the state SpecSum and SpecFetch keep it in.
MainIdle ==
    /\ openrouter_api_key = "key"
    /\ skip_summarize = FALSE
    /\ main_pc = "start"
    /\ main_call = 1
    /\ exit_code = Running
    /\ constructed = {}
    /\ summarized_by_topic = EmptyDict
    /\ gen_pc = "idle"
    /\ written = {}
    /\ topics_file = [topics |-> <<>>, settings |-> EmptyDict]
    /\ env_news_api_key = "<None>"

sum_rest == <<articles_by_topic, sum_pc, sum_t, batch_i, summarized,
              sum_results, content, item, n_items>>

FetcherIdle ==
    /\ topics_config \in {[topics |-> <<>>, settings |-> EmptyDict]}
    /\ news_api_key = NoKey
    /\ seen_ids = {}
    /\ now = StartTime
    /\ pc = "idle"
    /\ cutoff_date = StartTime
    /\ results = EmptyDict
    /\ topic_i = 1
    /\ feed_i = 1
    /\ topic_articles = <<>>
    /\ articles = <<>>
    /\ article = NoArticle
    /\ fetched = {}
    /\ failed = {}
    /\ delivered = 0
    /\ api_calls = {}
    /\ dropped = {}

-----------------------------------------------------------------------------
(* Summarizer (summarizer.py) *)

SummarizedArticle(original, ai_title, ai_summary, key_points) ==
    [original |-> original, ai_title |-> ai_title,
     ai_summary |-> ai_summary, key_points |-> key_points]

\* Inputs: the k-th article of the pool the input mapping is built from.
Letters == <<"a", "b", "c", "d", "e", "f", "g", "h">>
PoolArticle(k, topic) ==
    Article(<<Letters[k]>>, <<"x">>, "feed", 0,
            IF k = 2 THEN <<>> ELSE <<"s", Letters[k]>>, topic)
PoolList(first, n, topic) == [k \in 1..n |-> PoolArticle(first + k, topic)]

SumTopicNames == <<"NBA", "Lakers">>
\* Every mapping over a prefix of SumTopicNames whose lists hold at most
\* MaxArticles articles in all.
InputMappings ==
    {<<>>}
    \cup {<<[topic |-> SumTopicNames[1], articles |-> PoolList(0, a, SumTopicNames[1])]>> :
            a \in 0..MaxArticles}
    \cup {<<[topic |-> SumTopicNames[1], articles |-> PoolList(0, ab[1], SumTopicNames[1])],
            [topic |-> SumTopicNames[2], articles |-> PoolList(ab[1], ab[2], SumTopicNames[2])]>> :
            ab \in {p \in (0..MaxArticles) \X (0..MaxArticles) : p[1] + p[2] <= MaxArticles}}

\* What client.chat.completions.create(...) followed by
\* response.choices[0].message.content can do: raise, or give a content.
Unset         == "<unset>"
NoneContent   == "<None>"
EmptyContent  == ""
BadJson       == "not json"
JsonList      == "[]"
JsonNoKey     == "{}"
JsonBadList   == "{\"articles\": 7}"
JsonArticles  == "{\"articles\": [...]}"
Contents == {NoneContent, EmptyContent, BadJson, JsonList, JsonNoKey,
             JsonBadList, JsonArticles}
CallErrors == {"APIConnectionError", "IndexError"}
Exceptions == CallErrors \cup {"JSONDecodeError", "AttributeError", "TypeError"}
Responses == {[raises |-> e, content |-> Unset] : e \in CallErrors}
             \cup {[raises |-> "", content |-> c] : c \in Contents}

\* json.loads(content): the exception it raises, or the shape of the value.
JsonLoads(c) ==
    CASE c = BadJson      -> [raises |-> "JSONDecodeError", value |-> "-"]
      [] c = JsonList     -> [raises |-> "", value |-> "list"]
      [] c = JsonNoKey    -> [raises |-> "", value |-> "dict"]
      [] c = JsonBadList  -> [raises |-> "", value |-> "dict:int"]
      [] c = JsonArticles -> [raises |-> "", value |-> "dict:list"]

\* The elements a parsed "articles" list can hold.  index: the value under
\* "index" ("absent": no such key; "str": not a number).  keys: whether
\* "title", "summary" and "key_points" are present.
IndexValues == {0, 1, 2, BatchSize + 1}
NotADict == [is_dict |-> FALSE, index_kind |-> "absent", index |-> 0, keys |-> FALSE]
NoItem   == [is_dict |-> FALSE, index_kind |-> "none", index |-> 0, keys |-> FALSE]
Items ==
    {NotADict}
    \cup {[is_dict |-> TRUE, index_kind |-> k, index |-> 0, keys |-> f] :
            k \in {"absent", "str"}, f \in BOOLEAN}
    \cup {[is_dict |-> TRUE, index_kind |-> "int", index |-> n, keys |-> f] :
            n \in IndexValues, f \in BOOLEAN}

ItemTitle     == <<"T">>
ItemSummary   == <<"S">>
ItemKeyPoints == << <<"K">> >>

\* "if content:" (summarizer.py:104)
Truthy(c) == c # NoneContent /\ c # EmptyContent

\* "except json.JSONDecodeError" (line 120) and "except Exception" (line 133)
InnerCatches(e) == e = "JSONDecodeError"
OuterCatches(e) == e \in Exceptions

\* Mutant of InRange: the lower bound is forgotten.
InRangeNoLower(idx, batch) == idx < Len(batch)

\* "0 <= idx < len(batch)" (line 111)
InRange(idx, batch) == 0 <= idx /\ idx < Len(batch)

\* Mutant of PassThrough: the fallback leaves the summary empty.
PassThroughNoSummary(batch) ==
    [k \in 1..Len(batch) |->
        SummarizedArticle(batch[k], batch[k].title, <<>>, <<>>)]

\* The fallback loops (lines 123-131 and 136-144): one entry per article.
PassThrough(batch) ==
    [k \in 1..Len(batch) |->
        SummarizedArticle(batch[k], batch[k].title, batch[k].summary, <<>>)]

\* The entry lines 112-119 append for an element with an in-range idx.
FromItem(it, batch, idx) ==
    SummarizedArticle(PyIndex(batch, idx),
                      IF it.keys THEN ItemTitle ELSE PyIndex(batch, idx).title,
                      IF it.keys THEN ItemSummary ELSE <<>>,
                      IF it.keys THEN ItemKeyPoints ELSE <<>>)

CurTopic    == articles_by_topic[sum_t].topic
CurArticles == articles_by_topic[sum_t].articles
\* batch = articles[i : i + batch_size]
Batch       == Slice(CurArticles, batch_i, batch_i + BatchSize)

\* The end of one iteration of "for i in range(0, len(articles), batch_size)"
\* with the list now s: the next batch, or "return summarized" and
\* results[topic] = ... in summarize_all.
FinishBatch(s) ==
    /\ summarized' = s
    /\ IF batch_i + BatchSize < Len(CurArticles)
       THEN /\ batch_i' = batch_i + BatchSize
            /\ sum_pc' = "call"
            /\ UNCHANGED <<sum_results, sum_t>>
       ELSE /\ sum_results' = Put(sum_results, CurTopic, s)
            /\ sum_t' = sum_t + 1
            /\ sum_pc' = "topic"
            /\ UNCHANGED batch_i

\* An exception e raised inside the try blocks; inner: inside the
\* json try (lines 107-119).
Raise(e, inner) ==
    /\ exc' = e
    /\ IF (inner /\ InnerCatches(e)) \/ OuterCatches(e)
       THEN FinishBatch(summarized \o PassThrough(Batch))
       ELSE /\ sum_pc' = "raised"
            /\ UNCHANGED <<summarized, batch_i, sum_results, sum_t>>

\* summarize_all's loop body up to the first batch of summarize_batch.
SummarizeTopic ==
    /\ sum_pc = "topic"
    /\ sum_t <= Len(articles_by_topic)
    /\ IF CurArticles = <<>>
       THEN /\ sum_results' = Put(sum_results, CurTopic, <<>>)
            /\ sum_t' = sum_t + 1
            /\ UNCHANGED <<sum_pc, summarized, batch_i>>
       ELSE /\ summarized' = <<>>
            /\ batch_i' = 0
            /\ sum_pc' = "call"
            /\ UNCHANGED <<sum_results, sum_t>>
    /\ UNCHANGED <<articles_by_topic, content, item, n_items, exc>>

\* Lines 87-108 for one batch: the call, the content test, json.loads and
\* data.get("articles", []).
CallModel(r) ==
    /\ sum_pc = "call"
    /\ content' = r.content
    /\ item' = NoItem
    /\ n_items' = 0
    /\ UNCHANGED articles_by_topic
    /\ IF r.raises # "" THEN Raise(r.raises, FALSE)
       ELSE IF ~Truthy(r.content)
       THEN exc' = "" /\ FinishBatch(summarized)
       ELSE LET data == JsonLoads(r.content) IN
            CASE data.raises # ""         -> Raise(data.raises, TRUE)
              [] data.value = "list"      -> Raise("AttributeError", TRUE)
              [] data.value = "dict:int"  -> Raise("TypeError", TRUE)
              [] data.value = "dict"      -> exc' = "" /\ FinishBatch(summarized)
              [] data.value = "dict:list" ->
                    /\ exc' = ""
                    /\ sum_pc' = "items"
                    /\ UNCHANGED <<summarized, batch_i, sum_results, sum_t>>

\* One iteration of "for item in data.get("articles", [])" (lines 109-119).
ProcessItem(it) ==
    /\ sum_pc = "items"
    /\ n_items < MaxItems
    /\ item' = it
    /\ n_items' = n_items + 1
    /\ UNCHANGED <<articles_by_topic, content>>
    /\ IF ~it.is_dict THEN Raise("AttributeError", TRUE)
       ELSE IF it.index_kind = "str" THEN Raise("TypeError", TRUE)
       ELSE LET idx == (IF it.index_kind = "absent" THEN 1 ELSE it.index) - 1 IN
            IF InRange(idx, Batch)
            THEN IF PyIndex(Batch, idx) = IndexError
                 THEN Raise("IndexError", TRUE)
                 ELSE /\ summarized' = Append(summarized, FromItem(it, Batch, idx))
                      /\ exc' = ""
                      /\ UNCHANGED <<sum_pc, batch_i, sum_results, sum_t>>
            ELSE /\ exc' = ""
                 /\ UNCHANGED <<sum_pc, summarized, batch_i, sum_results, sum_t>>

\* The list of elements is exhausted.
EndItems ==
    /\ sum_pc = "items"
    /\ exc' = ""
    /\ FinishBatch(summarized)
    /\ UNCHANGED <<articles_by_topic, content, item, n_items>>

\* "return results" of summarize_all.
ReturnAll ==
    /\ sum_pc = "topic"
    /\ sum_t > Len(articles_by_topic)
    /\ sum_pc' = "done"
    /\ UNCHANGED <<articles_by_topic, sum_t, batch_i, summarized, sum_results,
                   content, item, n_items, exc>>

SumInit ==
    /\ articles_by_topic \in InputMappings
    /\ sum_pc = "topic"
    /\ sum_t = 1
    /\ batch_i = 0
    /\ summarized = <<>>
    /\ sum_results = EmptyDict
    /\ content = Unset
    /\ item = NoItem
    /\ n_items = 0
    /\ exc = ""

SumNext ==
    \/ UNCHANGED <<fetch_vars, main_vars>> /\ SummarizeTopic
    \/ UNCHANGED <<fetch_vars, main_vars>> /\ \E r \in Responses : CallModel(r)
    \/ UNCHANGED <<fetch_vars, main_vars>> /\ \E it \in Items : ProcessItem(it)
    \/ UNCHANGED <<fetch_vars, main_vars>> /\ EndItems
    \/ UNCHANGED <<fetch_vars, main_vars>> /\ ReturnAll

SumSpecInit == SumInit /\ FetcherIdle /\ MainIdle

SpecSum == SumSpecInit /\ [][SumNext]_vars

-----------------------------------------------------------------------------
(* NewsFetcher: fetch_all, fetch_rss_feed, fetch_news_api *)

\* datetime.now() moves on.  The clock is read by fetch_all (line 233), by
\* _parse_published_date for an entry without a date (line 105) and for an
\* item without publishedAt (line 199; every item of ApiItems has one).  It
\* advances where a read that is used can follow: between two runs and
\* inside the entry loop.
Tick ==
    /\ pc \in {"done", "entries"}
    /\ delivered < MaxEntries
    /\ now < StartTime + MaxTicks
    /\ now' = now + 1
    /\ UNCHANGED <<topics_config, news_api_key, seen_ids, pc, cutoff_date,
                   results, topic_i, feed_i, topic_articles, articles, article,
                   fetched, api_calls, dropped, failed, delivered, exc, sum_rest>>

\* Mutant of FetchAll: every run starts with an empty seen_ids.
FetchAllForgets ==
    /\ pc = "idle" \/ (pc = "done" /\ delivered < MaxEntries)
    /\ cutoff_date' = now - Days(KeepDays)
    /\ results' = EmptyDict
    /\ topic_i' = 1
    /\ pc' = "topic"
    /\ fetched' = {}
    /\ failed' = {}
    /\ api_calls' = {}
    /\ exc' = ""
    /\ seen_ids' = {}
    /\ UNCHANGED <<topics_config, news_api_key, now, feed_i,
                   topic_articles, articles, article, delivered, dropped,
                   sum_rest>>

\* fetch_all, lines 230-235.
FetchAll ==
    /\ pc = "idle" \/ (pc = "done" /\ delivered < MaxEntries)
    /\ cutoff_date' = now - Days(KeepDays)
    /\ results' = EmptyDict
    /\ topic_i' = 1
    /\ pc' = "topic"
    /\ fetched' = {}
    /\ failed' = {}
    /\ api_calls' = {}
    /\ exc' = ""
    /\ UNCHANGED <<topics_config, news_api_key, seen_ids, now, feed_i,
                   topic_articles, articles, article, delivered, dropped,
                   sum_rest>>

\* "for topic in ...": lines 237-243.
StartTopic ==
    /\ pc = "topic"
    /\ topic_i <= Len(Topics)
    /\ topic_articles' = <<>>
    /\ feed_i' = 1
    /\ pc' = "feed"
    /\ UNCHANGED <<topics_config, news_api_key, seen_ids, now, cutoff_date,
                   results, topic_i, articles, article, fetched, api_calls, dropped, failed,
                   delivered, exc, sum_rest>>

\* "return results" (line 268).
ReturnResults ==
    /\ pc = "topic"
    /\ topic_i > Len(Topics)
    /\ pc' = "done"
    /\ UNCHANGED <<topics_config, news_api_key, seen_ids, now, cutoff_date,
                   results, topic_i, feed_i, topic_articles, articles, article,
                   fetched, api_calls, dropped, failed, delivered, exc, sum_rest>>

\* "return articles" of fetch_rss_feed (line 162) into lines 250-251, e
\* being the exception caught on the way ("" when none).
ReturnFromFeed(list, e) ==
    /\ exc' = e
    /\ article' = NoArticle
    /\ IF e = "" \/ FetchCatches(e)
       THEN /\ topic_articles' = topic_articles \o list
            /\ feed_i' = feed_i + 1
            /\ pc' = "feed"
            /\ articles' = <<>>
            /\ failed' = IF e = "" THEN failed
                         ELSE failed \cup {<<topic_i, feed_i>>}
       ELSE /\ pc' = "raised"
            /\ UNCHANGED <<topic_articles, feed_i, articles, failed>>

\* Lines 259-265: the recency filter, the sort, the truncation.
FinishTopic(list) ==
    /\ topic_articles' = SortDesc(Filter(list, cutoff_date))
    /\ results' = Put(results, Get(Topic, "name", "Unknown"),
                      Truncate(topic_articles', MaxArticlesSetting))
    /\ topic_i' = topic_i + 1
    /\ pc' = "topic"
    /\ articles' = <<>>
    /\ article' = NoArticle
    /\ dropped' = dropped \cup ({a.id : a \in Range(list)}
                              \ {a.id : a \in Range(results'[Get(Topic, "name", "Unknown")])})

\* "return articles" of fetch_news_api (line 226) into lines 255-265.
ReturnFromApi(list, e) ==
    /\ exc' = e
    /\ IF e = "" \/ FetchCatches(e)
       THEN FinishTopic(topic_articles \o list)
       ELSE /\ pc' = "raised"
            /\ article' = NoArticle
            /\ UNCHANGED <<topic_articles, results, topic_i, articles, dropped>>

\* A feed without a url is passed over (line 249).
SkipFeed ==
    /\ pc = "feed"
    /\ feed_i <= Len(Topic.rss_feeds)
    /\ Topic.rss_feeds[feed_i].url = ""
    /\ feed_i' = feed_i + 1
    /\ UNCHANGED <<topics_config, news_api_key, seen_ids, now, pc, cutoff_date,
                   results, topic_i, topic_articles, articles, article,
                   fetched, api_calls, dropped, failed, delivered, exc, sum_rest>>

\* fetch_rss_feed up to the loop (lines 125-133): feedparser.parse gives a
\* feed, or raises.
OpenFeed(raises) ==
    /\ pc = "feed"
    /\ feed_i <= Len(Topic.rss_feeds)
    /\ Topic.rss_feeds[feed_i].url # ""
    /\ fetched' = fetched \cup {<<topic_i, feed_i>>}
    /\ IF raises # ""
       THEN ReturnFromFeed(<<>>, raises)
       ELSE /\ articles' = <<>>
            /\ article' = NoArticle
            /\ pc' = "entries"
            /\ exc' = ""
            /\ UNCHANGED <<topic_articles, feed_i, failed>>
    /\ UNCHANGED <<topics_config, news_api_key, seen_ids, now, cutoff_date,
                   results, topic_i, delivered, api_calls, dropped, sum_rest>>

\* One iteration of "for entry in feed.entries[:20]" (lines 133-155).
ProcessEntry(entry) ==
    /\ pc = "entries"
    /\ delivered < MaxEntries
    /\ delivered' = delivered + 1
    /\ UNCHANGED <<topics_config, news_api_key, now, cutoff_date, results,
                   topic_i, fetched, api_calls, dropped, sum_rest>>
    /\ IF entry.title = NoneText
       THEN /\ ReturnFromFeed(articles, "AttributeError")
            /\ UNCHANGED seen_ids
       ELSE LET title == Strip(entry.title)
                link  == CleanGoogleNewsUrl(entry.link)
                a     == Article(title, link, Topic.rss_feeds[feed_i].name,
                                 ParsePublishedDate(entry, now),
                                 ExtractSummary(entry), Topic.name)
                d     == Dedup(a, articles, seen_ids)
            IN /\ exc' = ""
               /\ IF title = <<>> \/ entry.link = <<>>
                  THEN UNCHANGED <<articles, article, seen_ids>>
                  ELSE /\ article' = a
                       /\ articles' = d.articles
                       /\ seen_ids' = d.seen_ids
               /\ UNCHANGED <<pc, topic_articles, feed_i, failed>>

\* The entries are exhausted.
EndEntries ==
    /\ pc = "entries"
    /\ ReturnFromFeed(articles, "")
    /\ UNCHANGED <<topics_config, news_api_key, seen_ids, now, cutoff_date,
                   results, topic_i, fetched, api_calls, dropped, delivered, sum_rest>>

\* Lines 253-265 when the feeds of the topic are done: the fallback test,
\* and fetch_news_api up to its loop (lines 168-191), where the request
\* gives a body or raises.
AfterFeeds(raises) ==
    /\ pc = "feed"
    /\ feed_i > Len(Topic.rss_feeds)
    /\ UNCHANGED <<topics_config, news_api_key, seen_ids, now, cutoff_date,
                   feed_i, fetched, failed, delivered, sum_rest>>
    /\ IF NeedsFallback(topic_articles, Topic.keywords)
       THEN /\ api_calls' = api_calls \cup {<<topic_i, news_api_key # NoKey>>}
            /\ IF news_api_key = NoKey
               THEN ReturnFromApi(<<>>, "")
               ELSE IF raises # ""
               THEN ReturnFromApi(<<>>, raises)
               ELSE /\ articles' = <<>>
                    /\ article' = NoArticle
                    /\ pc' = "api_items"
                    /\ exc' = ""
                    /\ UNCHANGED <<topic_articles, results, topic_i, dropped>>
       ELSE /\ exc' = ""
            /\ FinishTopic(topic_articles)
            /\ UNCHANGED api_calls

\* One iteration of "for item in data.get("articles", [])" (lines 191-219).
ProcessApiItem(it) ==
    /\ pc = "api_items"
    /\ delivered < MaxEntries
    /\ delivered' = delivered + 1
    /\ UNCHANGED <<topics_config, news_api_key, now, cutoff_date, feed_i,
                   fetched, api_calls, failed, sum_rest>>
    /\ IF it.title = NoneText
       THEN /\ ReturnFromApi(articles, "AttributeError")
            /\ UNCHANGED seen_ids
       ELSE LET title == Strip(it.title)
                skip  == title = <<>> \/ it.url = <<>> \/ title = Removed
                a     == Article(title, it.url, "NewsAPI",
                                 ParsePublishedDate(it, now),
                                 it.description, Topic.name)
                d     == Dedup(a, articles, seen_ids)
            IN IF ~skip /\ it.description = NoneText
               THEN /\ ReturnFromApi(articles, "TypeError")
                    /\ UNCHANGED seen_ids
               ELSE /\ exc' = ""
                    /\ IF skip
                       THEN UNCHANGED <<articles, article, seen_ids>>
                       ELSE /\ article' = a
                            /\ articles' = d.articles
                            /\ seen_ids' = d.seen_ids
                    /\ UNCHANGED <<pc, topic_articles, results, topic_i,
                                   dropped>>

\* The items are exhausted.
EndApiItems ==
    /\ pc = "api_items"
    /\ ReturnFromApi(articles, "")
    /\ UNCHANGED <<topics_config, news_api_key, seen_ids, now, cutoff_date,
                   feed_i, fetched, api_calls, failed, delivered, sum_rest>>

\* NewsFetcher.__init__ (lines 41-49).
FetchInit ==
    /\ topics_config \in Configs
    /\ news_api_key \in {NoKey, "key"}
    /\ seen_ids = {}
    /\ now = StartTime
    /\ pc = "idle"
    /\ cutoff_date = StartTime
    /\ results = EmptyDict
    /\ topic_i = 1
    /\ feed_i = 1
    /\ topic_articles = <<>>
    /\ articles = <<>>
    /\ article = NoArticle
    /\ fetched = {}
    /\ failed = {}
    /\ delivered = 0
    /\ api_calls = {}
    /\ dropped = {}

SummarizerIdle ==
    /\ articles_by_topic = <<>>
    /\ sum_pc = "topic"
    /\ sum_t = 1
    /\ batch_i = 0
    /\ summarized = <<>>
    /\ sum_results = EmptyDict
    /\ content = Unset
    /\ item = NoItem
    /\ n_items = 0
    /\ exc = ""

FetchNext ==
    \/ UNCHANGED main_vars /\ Tick
    \/ UNCHANGED main_vars /\ FetchAll
    \/ UNCHANGED main_vars /\ StartTopic
    \/ UNCHANGED main_vars /\ SkipFeed
    \/ UNCHANGED main_vars /\ \E raises \in {"", "URLError"} : OpenFeed(raises)
    \/ UNCHANGED main_vars /\ \E entry \in FeedEntries : ProcessEntry(entry)
    \/ UNCHANGED main_vars /\ EndEntries
    \/ UNCHANGED main_vars /\ \E raises \in {"", "ConnectError", "HTTPStatusError"} : AfterFeeds(raises)
    \/ UNCHANGED main_vars /\ \E it \in ApiItems : ProcessApiItem(it)
    \/ UNCHANGED main_vars /\ EndApiItems
    \/ UNCHANGED main_vars /\ ReturnResults

FetchSpecInit == FetchInit /\ SummarizerIdle /\ MainIdle

SpecFetch == FetchSpecInit /\ [][FetchNext]_vars

-----------------------------------------------------------------------------
(* NewsFetcher with whole feeds: fetch_rss_feed as one step *)

\* Lines 133-155 for a whole list of entries: the local list and seen_ids
\* after the loop, and the exception that ended it ("" when none).
RECURSIVE EntryLoop(_, _, _, _, _, _)
EntryLoop(entries, list, seen, feed_name, topic_name, clock) ==
    IF entries = <<>>
    THEN [articles |-> list, seen_ids |-> seen, exc |-> ""]
    ELSE LET entry == Head(entries) IN
         IF entry.title = NoneText
         THEN [articles |-> list, seen_ids |-> seen, exc |-> "AttributeError"]
         ELSE LET title == Strip(entry.title)
                  link  == CleanGoogleNewsUrl(entry.link)
                  a     == Article(title, link, feed_name,
                                   ParsePublishedDate(entry, clock),
                                   ExtractSummary(entry), topic_name)
                  d     == Dedup(a, list, seen)
              IN IF title = <<>> \/ entry.link = <<>>
                 THEN EntryLoop(Tail(entries), list, seen,
                                feed_name, topic_name, clock)
                 ELSE EntryLoop(Tail(entries), d.articles, d.seen_ids,
                                feed_name, topic_name, clock)

\* What a feed holds: the first n of a row of recent entries with different
\* titles, n around the threshold of the fallback, and one list of as many
\* entries as the threshold with a title twice.
FeedRow(n) == [k \in 1..n |-> Entry(<<Letters[k]>>, <<"x">>, TRUE, Cutoff0 + 1)]
FeedBodies ==
    {FeedRow(n) : n \in {0, FallbackBelow - 1, FallbackBelow, FallbackBelow + 1}}
    \cup {Append(FeedRow(FallbackBelow - 1), FeedRow(1)[1])}

\* fetch_rss_feed, lines 125-162, for a feed that holds body.
FetchRssFeed(body) ==
    /\ pc = "feed"
    /\ feed_i <= Len(Topic.rss_feeds)
    /\ Topic.rss_feeds[feed_i].url # ""
    /\ fetched' = fetched \cup {<<topic_i, feed_i>>}
    /\ delivered' = delivered + Len(body)
    /\ LET r == EntryLoop(body, <<>>, seen_ids, Topic.rss_feeds[feed_i].name,
                          Topic.name, now)
       IN /\ seen_ids' = r.seen_ids
          /\ ReturnFromFeed(r.articles, r.exc)
    /\ UNCHANGED <<topics_config, news_api_key, now, cutoff_date, results,
                   topic_i, api_calls, dropped, sum_rest>>

FallbackNext ==
    \/ UNCHANGED main_vars /\ FetchAll
    \/ UNCHANGED main_vars /\ StartTopic
    \/ UNCHANGED main_vars /\ SkipFeed
    \/ UNCHANGED main_vars /\ \E body \in FeedBodies : FetchRssFeed(body)
    \/ UNCHANGED main_vars /\ \E raises \in {"", "ConnectError", "HTTPStatusError"} : AfterFeeds(raises)
    \/ UNCHANGED main_vars /\ \E it \in ApiItems : ProcessApiItem(it)
    \/ UNCHANGED main_vars /\ EndApiItems
    \/ UNCHANGED main_vars /\ ReturnResults

SpecFallback == FetchSpecInit /\ [][FallbackNext]_vars

-----------------------------------------------------------------------------
(* SiteGenerator.generate (site_generator.py) *)

\* Mutant of OnRenderError: the handler logs and goes on.
OnRenderErrorGoesOn == "json"

\* "except Exception as e: ... raise" (lines 127-129): where generate is
\* after an exception inside the try block.
OnRenderError == "raised"

\* Lines 116-122: env.get_template and template.render give the html, or
\* one of them raises.
Render(e) ==
    /\ main_pc = "generate"
    /\ gen_pc = "render"
    /\ gen_pc' = IF e = "" THEN "write" ELSE OnRenderError
    /\ exc' = e
    /\ UNCHANGED <<written, openrouter_api_key, skip_summarize, main_pc,
                   main_call, exit_code, constructed, summarized_by_topic,
                   topics_file, env_news_api_key, fetch_vars, sum_rest>>

\* Lines 124-126: index_path.write_text inside the same try block.
WriteIndex(e) ==
    /\ main_pc = "generate"
    /\ gen_pc = "write"
    /\ IF e = ""
       THEN gen_pc' = "json" /\ written' = written \cup {"index.html"}
       ELSE gen_pc' = OnRenderError /\ UNCHANGED written
    /\ exc' = e
    /\ UNCHANGED <<openrouter_api_key, skip_summarize, main_pc,
                   main_call, exit_code, constructed, summarized_by_topic,
                   topics_file, env_news_api_key, fetch_vars, sum_rest>>

\* Lines 132-140: news.json, outside any try block.
WriteJson(e) ==
    /\ main_pc = "generate"
    /\ gen_pc = "json"
    /\ IF e = ""
       THEN gen_pc' = "static" /\ written' = written \cup {"news.json"}
       ELSE gen_pc' = "raised" /\ UNCHANGED written
    /\ exc' = e
    /\ UNCHANGED <<openrouter_api_key, skip_summarize, main_pc,
                   main_call, exit_code, constructed, summarized_by_topic,
                   topics_file, env_news_api_key, fetch_vars, sum_rest>>

\* Lines 143-145 and _copy_static_assets: the copy when templates/static
\* exists, then the return.
CopyStaticAssets(static_exists) ==
    /\ main_pc = "generate"
    /\ gen_pc = "static"
    /\ gen_pc' = "done"
    /\ written' = IF static_exists THEN written \cup {"static"} ELSE written
    /\ exc' = ""
    /\ UNCHANGED <<openrouter_api_key, skip_summarize, main_pc,
                   main_call, exit_code, constructed, summarized_by_topic,
                   topics_file, env_news_api_key, fetch_vars, sum_rest>>

-----------------------------------------------------------------------------
(* main (main.py) *)

\* The script calls main() in both of its "if __name__ == "__main__":"
\* blocks (lines 139-144).
MainCalls == 2

\* The topics files main is run with: one topic at most, one feed at most,
\* no settings.
MainConfigs ==
    {c \in Configs : /\ Len(c.topics) <= 1
                     /\ FeedCount(c.topics) <= 1
                     /\ c.settings = EmptyDict}

\* The frame of a fetch_all call, of a summarize_all call and of a generate
\* call is gone when the call has returned: its locals are as before the
\* call.
FetchAllFrameGone ==
    /\ pc' = "idle"
    /\ cutoff_date' = StartTime
    /\ results' = EmptyDict
    /\ topic_i' = 1
    /\ feed_i' = 1
    /\ topic_articles' = <<>>
    /\ articles' = <<>>
    /\ article' = NoArticle
SummarizeAllFrameGone ==
    /\ sum_pc' = "topic"
    /\ sum_t' = 1
    /\ batch_i' = 0
    /\ summarized' = <<>>
    /\ sum_results' = EmptyDict
    /\ content' = Unset
    /\ item' = NoItem
    /\ n_items' = 0

\* Mutant of KeyRequired: --skip-summarize is not looked at.
KeyRequiredAlways(key, skip) == key = NoKey

\* "if not openrouter_api_key and not args.skip_summarize" (line 64)
KeyRequired(key, skip) == key = NoKey /\ ~skip

\* sum(len(articles) for articles in articles_by_topic.values())
RECURSIVE SumLens(_, _)
SumLens(d, names) ==
    IF names = {} THEN 0
    ELSE LET n == CHOOSE x \in names : TRUE
         IN Len(d[n]) + SumLens(d, names \ {n})
TotalArticles(d) == SumLens(d, DOMAIN d)

\* articles_by_topic.items(): the topics in the order fetch_all inserted
\* them.
ToItems(d) ==
    [k \in 1..Len(Topics) |->
        [topic |-> Get(Topics[k], "name", "Unknown"),
         articles |-> d[Get(Topics[k], "name", "Unknown")]]]

\* Lines 100-110: the mapping --skip-summarize builds.
SkipSummaries(d) == [n \in DOMAIN d |-> PassThrough(d[n])]

\* Lines 58-82: the credential test, then NewsFetcher(...).
MainStart ==
    /\ main_pc = "start"
    /\ IF KeyRequired(openrouter_api_key, skip_summarize)
       THEN /\ main_pc' = "exit"
            /\ exit_code' = ExitError
            /\ UNCHANGED <<constructed, fetch_vars>>
       ELSE /\ main_pc' = "fetch"
            /\ constructed' = {"NewsFetcher"}
            /\ topics_config' = topics_file
            /\ news_api_key' = env_news_api_key
            /\ seen_ids' = {}
            /\ pc' = "idle"
            /\ results' = EmptyDict
            /\ topic_i' = 1
            /\ feed_i' = 1
            /\ topic_articles' = <<>>
            /\ articles' = <<>>
            /\ article' = NoArticle
            /\ fetched' = {}
            /\ failed' = {}
            /\ delivered' = 0
            /\ api_calls' = {}
            /\ dropped' = {}
            /\ UNCHANGED <<now, cutoff_date, exit_code>>
    /\ UNCHANGED <<openrouter_api_key, skip_summarize, main_call,
                   summarized_by_topic, gen_pc, written, topics_file,
                   env_news_api_key, exc, sum_rest>>

\* Line 83: fetcher.fetch_all(), the feeds and the search API delivering
\* MainMaxEntries entries and items at most.
MainFetch ==
    /\ main_pc = "fetch"
    /\ pc # "done"
    /\ FetchNext
    /\ delivered' <= MainMaxEntries

\* Lines 85-120 up to the summarize_all call: the count, the warning, and
\* either the mapping of --skip-summarize or Summarizer(...).
MainAfterFetch ==
    /\ main_pc = "fetch"
    /\ pc = "done"
    /\ articles_by_topic' = ToItems(results)
    /\ FetchAllFrameGone
    /\ SummarizeAllFrameGone
    /\ IF skip_summarize
       THEN /\ summarized_by_topic' = SkipSummaries(results)
            /\ main_pc' = "generate"
            /\ UNCHANGED constructed
       ELSE /\ constructed' = constructed \cup {"Summarizer"}
            /\ main_pc' = "summarize"
            /\ UNCHANGED summarized_by_topic
    /\ exc' = ""
    /\ UNCHANGED <<openrouter_api_key, skip_summarize, main_call, exit_code,
                   gen_pc, written, topics_file, env_news_api_key,
                   topics_config, news_api_key, seen_ids, now, fetched,
                   failed, delivered, api_calls, dropped>>

\* Line 120: summarizer.summarize_all(articles_by_topic).
MainSummarize ==
    /\ main_pc = "summarize"
    /\ SumNext

\* summarize_all has returned: summarized_by_topic is bound.
MainAfterSummarize ==
    /\ main_pc = "summarize"
    /\ sum_pc = "done"
    /\ summarized_by_topic' = sum_results
    /\ main_pc' = "generate"
    /\ SummarizeAllFrameGone
    /\ exc' = ""
    /\ UNCHANGED <<openrouter_api_key, skip_summarize, main_call, exit_code,
                   constructed, gen_pc, written, topics_file,
                   env_news_api_key, fetch_vars, articles_by_topic>>

\* Lines 127-131 up to the try block of generate: SiteGenerator(...) and
\* generate(summarized_by_topic).
MainGenerate ==
    /\ main_pc = "generate"
    /\ gen_pc = "idle"
    /\ constructed' = constructed \cup {"SiteGenerator"}
    /\ gen_pc' = "render"
    /\ written' = {}
    /\ UNCHANGED <<openrouter_api_key, skip_summarize, main_pc, main_call,
                   exit_code, summarized_by_topic, topics_file,
                   env_news_api_key, fetch_vars, sum_vars>>

\* generate has returned (lines 133-136), or its exception leaves main and
\* ends the process.
MainAfterGenerate ==
    /\ main_pc = "generate"
    /\ gen_pc \in {"done", "raised"}
    /\ IF gen_pc = "done"
       THEN main_pc' = "returned" /\ UNCHANGED exit_code
       ELSE main_pc' = "exit" /\ exit_code' = ExitError
    /\ UNCHANGED <<openrouter_api_key, skip_summarize, main_call,
                   constructed, summarized_by_topic, gen_pc, written,
                   topics_file, env_news_api_key, fetch_vars, sum_vars>>

\* main() has returned and its objects are gone: the script's next call
\* of it, or the end of the script.
MainReturn ==
    /\ main_pc = "returned"
    /\ IF main_call < MainCalls
       THEN /\ main_call' = main_call + 1
            /\ main_pc' = "start"
            /\ UNCHANGED exit_code
       ELSE /\ main_pc' = "exit"
            /\ exit_code' = ExitOk
            /\ UNCHANGED main_call
    /\ constructed' = {}
    /\ summarized_by_topic' = EmptyDict
    /\ articles_by_topic' = <<>>
    /\ gen_pc' = "idle"
    /\ written' = {}
    /\ exc' = ""
    /\ topics_config' = [topics |-> <<>>, settings |-> EmptyDict]
    /\ news_api_key' = NoKey
    /\ seen_ids' = {}
    /\ fetched' = {}
    /\ failed' = {}
    /\ delivered' = 0
    /\ api_calls' = {}
    /\ dropped' = {}
    /\ UNCHANGED <<openrouter_api_key, skip_summarize, topics_file,
                   env_news_api_key, now, pc, cutoff_date, results, topic_i,
                   feed_i, topic_articles, articles, article, sum_pc, sum_t,
                   batch_i, summarized, sum_results, content, item, n_items>>

\* The process starts: the environment and the command line.
MainInit ==
    /\ openrouter_api_key \in {NoKey, "key"}
    /\ skip_summarize \in BOOLEAN
    /\ main_pc = "start"
    /\ main_call = 1
    /\ exit_code = Running
    /\ constructed = {}
    /\ summarized_by_topic = EmptyDict
    /\ gen_pc = "idle"
    /\ written = {}
    /\ topics_file \in MainConfigs
    /\ env_news_api_key \in {NoKey, "key"}

MainNext ==
    \/ MainStart
    \/ MainFetch
    \/ MainAfterFetch
    \/ MainSummarize
    \/ MainAfterSummarize
    \/ MainGenerate
    \/ \E e \in {"", "TemplateNotFound", "UndefinedError"} : Render(e)
    \/ \E e \in {"", "OSError"} : WriteIndex(e)
    \/ \E e \in {"", "OSError"} : WriteJson(e)
    \/ \E static_exists \in BOOLEAN : CopyStaticAssets(static_exists)
    \/ MainAfterGenerate
    \/ MainReturn

MainSpecInit == MainInit /\ FetcherIdle /\ SummarizerIdle

SpecMain == MainSpecInit /\ [][MainNext]_vars

-----------------------------------------------------------------------------
(* Claims about the Summarizer, checked under SpecSum *)

\* summarized' is summarized followed by one entry per article of the
\* current batch, in batch order, each with the original's title and summary
\* and no key points.
AppendsPassThrough ==
    /\ Len(summarized') = Len(summarized) + Len(Batch)
    /\ SubSeq(summarized', 1, Len(summarized)) = summarized
    /\ \A k \in 1..Len(Batch) :
          LET e == summarized'[Len(summarized) + k] IN
          /\ e.original = Batch[k]
          /\ e.ai_title = Batch[k].title
          /\ e.ai_summary = Batch[k].summary
          /\ e.key_points = <<>>

\* C1: when summarize_all has returned, its result has the topics of the
\* input mapping, and for every topic a list as long as the input list whose
\* i-th entry has the i-th input article as its original.
C1_SameShapeAndOrder ==
    sum_pc = "done" =>
        /\ DOMAIN sum_results =
              {articles_by_topic[k].topic : k \in DOMAIN articles_by_topic}
        /\ \A k \in DOMAIN articles_by_topic :
              LET inp == articles_by_topic[k].articles
                  out == sum_results[articles_by_topic[k].topic]
              IN /\ Len(out) = Len(inp)
                 /\ \A i \in 1..Len(inp) : out[i].original = inp[i]

\* C2: a batch whose call raises, or whose content is not valid JSON, appends
\* exactly the pass-through entries of the batch, and summarize_batch does
\* not raise.
C2_FailedCallFallsBack ==
    [][(sum_pc = "call" /\ (content' = Unset \/ content' = BadJson))
          => (sum_pc' # "raised" /\ AppendsPassThrough)]_vars

\* C2 witness: the second batch of a topic failed at the call and its
\* article was passed through behind the entries of the first batch.
C2_Witness ==
    /\ exc \in CallErrors \cup {"JSONDecodeError"}
    /\ batch_i = BatchSize
    /\ sum_pc = "topic"
    /\ Len(summarized) > 1
    /\ summarized[Len(summarized)].ai_title = summarized[Len(summarized)].original.title

\* C3: a batch whose call returns None or "" as content appends exactly the
\* pass-through entries of the batch.
C3_EmptyContentFallsBack ==
    [][(sum_pc = "call" /\ content' \in {NoneContent, EmptyContent})
          => AppendsPassThrough]_vars

\* The element in item is a dictionary whose index is an integer outside
\* 1..len(batch).
OutOfRange(it, batch) ==
    /\ it.is_dict
    /\ it.index_kind = "int"
    /\ (it.index < 1 \/ it.index > Len(batch))

\* C4: iterating an element whose index is outside 1..len(batch) raises
\* nothing, appends nothing and leaves the loop where it was, so the entries
\* of the other elements are those of the response without that element.
C4_OutOfRangeIndexDropped ==
    [][(sum_pc = "items" /\ n_items' = n_items + 1 /\ OutOfRange(item', Batch))
          => /\ exc' = ""
             /\ summarized' = summarized
             /\ UNCHANGED <<sum_pc, batch_i, sum_t, sum_results, content>>]_vars

\* C4 witness: an out-of-range element was iterated after an in-range one.
C4_Witness ==
    /\ sum_pc = "items"
    /\ OutOfRange(item, Batch)
    /\ Len(summarized) = 1
    /\ n_items = 2

-----------------------------------------------------------------------------
(* Claims about the NewsFetcher, checked under SpecFetch *)

\* The articles fetch_all and the call it is in are holding: the results so
\* far and, inside a topic, topic_articles and the local list.
Held ==
    UNION {Range(results[n]) : n \in DOMAIN results}
    \cup (IF pc \in {"feed", "entries", "api_items"}
          THEN Range(topic_articles \o articles) ELSE {})

\* The number of articles held.
HeldCount ==
    LET names == DOMAIN results
        RECURSIVE Sum(_)
        Sum(ns) == IF ns = {} THEN 0
                   ELSE LET n == CHOOSE x \in ns : TRUE
                        IN Len(results[n]) + Sum(ns \ {n})
    IN Sum(names) + (IF pc \in {"feed", "entries", "api_items"}
                     THEN Len(topic_articles) + Len(articles) ELSE 0)

\* The step is one iteration of an entry loop or an item loop that raised
\* nothing.
LoopStep == delivered' = delivered + 1 /\ exc' = ""

\* C5: no two articles held share an id and every held id is in seen_ids; an
\* iteration appends at most the article it built, appends it exactly when
\* its id was not in seen_ids, and then adds the id; no step of any call
\* takes an id out of seen_ids.
C5_NoSharedId ==
    /\ [](/\ \A a \in Held : a.id \in seen_ids
          /\ Cardinality({a.id : a \in Held}) = HeldCount)
    /\ [][/\ seen_ids \subseteq seen_ids'
          /\ LoopStep =>
               IF article' # article \/ articles' # articles
               THEN IF article'.id \in seen_ids
                    THEN articles' = articles /\ seen_ids' = seen_ids
                    ELSE /\ articles' = Append(articles, article')
                         /\ seen_ids' = seen_ids \cup {article'.id}
               ELSE seen_ids' = seen_ids]_vars

\* C5 witness: under the second topic, in a second feed of the run, an
\* entry was built whose id the first topic had already returned, and it
\* was dropped.
C5_Witness ==
    /\ pc = "entries"
    /\ topic_i = 2
    /\ article # NoArticle
    /\ articles = <<>>
    /\ "NBA" \in DOMAIN results
    /\ \E k \in 1..Len(results["NBA"]) : results["NBA"][k].id = article.id

\* C6: no list of the results is longer than max_articles_per_topic, and
\* when a topic is finished its list holds as many of the recent articles of
\* the topic as the maximum allows, none of them older than a recent article
\* left out.
C6_CappedKeepingNewest ==
    /\ [](\A n \in DOMAIN results : Len(results[n]) <= MaxArticlesSetting)
    /\ [][topic_i' = topic_i + 1 =>
            LET kept == Range(results'[Topic.name])
                cand == {a \in Range(topic_articles \o articles) :
                            a.published >= cutoff_date}
            IN /\ kept \subseteq cand
               /\ Len(results'[Topic.name]) =
                     Min(MaxArticlesSetting, Cardinality(cand))
               /\ \A d \in cand \ kept : \A k \in kept :
                     d.published <= k.published]_vars

\* C6 witness: a topic finished with two recent articles of different dates
\* and a maximum of one; the newer one is its list.
C6_Witness ==
    /\ pc = "topic"
    /\ topic_i = 2
    /\ MaxArticlesSetting = 1
    /\ Len(topic_articles) = 2
    /\ topic_articles[1].published > topic_articles[2].published
    /\ results["NBA"] = <<topic_articles[1]>>

\* C7: along every list of the results the dates never increase.
C7_NewestFirst ==
    \A n \in DOMAIN results :
        \A i, j \in 1..Len(results[n]) :
            i < j => results[n][i].published >= results[n][j].published

\* C7 witness: a list whose first article is newer than its second and was
\* delivered after it, by a later feed or by the search API.
C7_Witness ==
    \E n \in DOMAIN results :
        /\ Len(results[n]) = 2
        /\ results[n][1].published > results[n][2].published
        /\ results[n][2].source = "f1"
        /\ results[n][1].source \in {"f2", "NewsAPI"}

\* C8: fetch_all sets cutoff_date to the clock at its start less keep_days
\* and nothing else changes it; no article of the results is older than
\* cutoff_date; an article dated exactly cutoff_date passes the filter of
\* its topic.
C8_CutoffInclusive ==
    /\ [](\A n \in DOMAIN results : \A k \in 1..Len(results[n]) :
            results[n][k].published >= cutoff_date)
    /\ [][/\ IF pc \in {"idle", "done"} /\ pc' = "topic"
             THEN cutoff_date' = now - KeepDays * TicksPerDay
             ELSE cutoff_date' = cutoff_date
          /\ topic_i' = topic_i + 1 =>
               \A a \in Range(topic_articles \o articles) :
                  a.published = cutoff_date => a \in Range(topic_articles')]_vars

\* C8 witness: a list of the results holds an article of a feed and an
\* article of the search API, both dated exactly cutoff_date.
C8_Witness ==
    \E n \in DOMAIN results :
        /\ Len(results[n]) = 2
        /\ results[n][1].published = cutoff_date
        /\ results[n][2].published = cutoff_date
        /\ results[n][1].source = "f1"
        /\ results[n][2].source = "NewsAPI"

\* The step is a fetch_rss_feed call failing: feedparser.parse raised, or an
\* iteration of the entry loop did.
FeedFails ==
    /\ exc' # ""
    /\ pc = "entries" \/ (pc = "feed" /\ fetched' # fetched)

\* The <<topic, feed>> positions of the topics file whose feed has a url.
Configured ==
    {<<t, f>> \in (1..Len(Topics)) \X (1..Len(FeedNames)) :
        /\ f <= Len(Topics[t].rss_feeds)
        /\ Topics[t].rss_feeds[f].url # ""}

\* C9: a failing fetch_rss_feed call raises nothing into fetch_all, which
\* goes on with the next feed of the same topic; fetch_all never raises, and
\* when it returns every configured feed was fetched and the results have a
\* list for every configured topic.
C9_FeedFailureIsolated ==
    /\ [](pc # "raised")
    /\ [](pc = "done" =>
            /\ fetched = Configured
            /\ DOMAIN results = {Topics[t].name : t \in 1..Len(Topics)})
    /\ [][FeedFails =>
            /\ pc' = "feed"
            /\ feed_i' = feed_i + 1
            /\ topic_i' = topic_i
            /\ results' = results]_vars

\* C9 witness: fetch_all returned after the first feed of the first topic
\* failed; the second feed was fetched and an article of it is in the list
\* of the topic, and the second topic has its list.
C9_Witness ==
    /\ pc = "done"
    /\ Len(Topics) = 2
    /\ failed = {<<1, 1>>}
    /\ fetched = {<<1, 1>>, <<1, 2>>}
    /\ DOMAIN results = {"NBA", "Lakers"}
    /\ \E k \in 1..Len(results["NBA"]) : results["NBA"][k].source = "f2"

\* C10: a fetch_rss_feed or fetch_news_api call in which an exception was
\* caught adds no article to topic_articles.
C10_FailedFetchAddsNothing ==
    [][/\ FeedFails => topic_articles' = topic_articles
       /\ (pc = "api_items" /\ exc' # "") =>
             \A a \in Range(articles) : a \notin Range(topic_articles')]_vars

-----------------------------------------------------------------------------
(* Claims about main and SiteGenerator.generate, checked under SpecMain *)

\* No fetch, no summarization and no rendering has been started, and no
\* request was made.
NothingStarted ==
    /\ constructed = {}
    /\ pc = "idle" /\ fetched = {} /\ api_calls = {} /\ delivered = 0
    /\ seen_ids = {}
    /\ sum_pc = "topic" /\ content = Unset
    /\ gen_pc = "idle" /\ written = {}

\* C11: without the summarization key and without --skip-summarize the
\* process ends at the start of the first call of main with status 1,
\* nothing constructed and nothing started; in every other case the start of
\* main constructs the NewsFetcher and goes to the fetch; a fetch of zero
\* articles goes on to summarization or rendering, summarization goes on to
\* rendering, and the process ends with status 0 unless the key was missing
\* or generate raised.
C11_MissingKeyIsFatalAtStart ==
    /\ []((openrouter_api_key = NoKey /\ ~skip_summarize) =>
            /\ main_pc \in {"start", "exit"}
            /\ main_call = 1
            /\ NothingStarted
            /\ exit_code = IF main_pc = "exit" THEN ExitError ELSE Running)
    /\ [](main_pc = "exit" =>
            (exit_code = ExitOk <=>
                /\ ~(openrouter_api_key = NoKey /\ ~skip_summarize)
                /\ gen_pc # "raised"))
    /\ [][/\ (main_pc = "start" /\ ~(openrouter_api_key = NoKey /\ ~skip_summarize))
             => /\ main_pc' = "fetch"
                /\ constructed' = {"NewsFetcher"}
                /\ exit_code' = Running
          /\ (main_pc = "fetch" /\ pc = "done" /\ TotalArticles(results) = 0)
             => /\ main_pc' \in {"summarize", "generate"}
                /\ exit_code' = Running
          /\ (main_pc = "summarize" /\ main_pc' # "summarize")
             => main_pc' = "generate"]_vars

\* C11 witness: the key is missing, --skip-summarize is not set, and the
\* process has ended with status 1.
C11_Witness ==
    /\ openrouter_api_key = NoKey
    /\ ~skip_summarize
    /\ main_pc = "exit"
    /\ exit_code = ExitError

\* C12: an exception while loading or rendering the template, or while
\* writing index.html, leaves generate as an exception with nothing more
\* written, and ends main with status 1; news.json and the static copy are
\* written only in a call that has written index.html.
C12_RenderFailureReraised ==
    /\ []((("news.json" \in written) \/ ("static" \in written))
            => "index.html" \in written)
    /\ [][/\ (gen_pc \in {"render", "write"} /\ exc' # "")
             => /\ gen_pc' = "raised"
                /\ written' = written
                /\ "news.json" \notin written
                /\ "static" \notin written
          /\ gen_pc = "raised"
             => /\ main_pc' = "exit"
                /\ exit_code' = ExitError
                /\ written' = written]_vars

\* C12 witness: in the second call of main, rendering raised; the call
\* wrote nothing and the process has ended with status 1.
C12_Witness ==
    /\ main_call = MainCalls
    /\ gen_pc = "raised"
    /\ exc \in {"TemplateNotFound", "UndefinedError"}
    /\ written = {}
    /\ main_pc = "exit"
    /\ exit_code = ExitError

-----------------------------------------------------------------------------
(* Claims about the fallback, checked under SpecFallback *)

\* The step is the one that follows the last feed of a topic.
FeedsDone == pc = "feed" /\ feed_i > Len(Topic.rss_feeds)

\* C13: when the feeds of a topic are done, fetch_news_api is called exactly
\* if topic_articles holds fewer than 5 articles and the topic has
\* keywords; without a key the call makes no request, raises nothing and the
\* topic is finished with no article added.
C13_FallbackWhenFewAndKeywords ==
    /\ [](news_api_key = NoKey =>
            /\ pc # "api_items"
            /\ \A c \in api_calls : ~c[2])
    /\ [][/\ FeedsDone =>
               LET few == Len(topic_articles) < 5 /\ Topic.keywords # <<>> IN
               /\ api_calls' = IF few
                               THEN api_calls \cup {<<topic_i, news_api_key # NoKey>>}
                               ELSE api_calls
               /\ <<topic_i, TRUE>> \notin api_calls
               /\ <<topic_i, FALSE>> \notin api_calls
               /\ (~few \/ news_api_key = NoKey) =>
                     /\ exc' = ""
                     /\ pc' = "topic"
                     /\ Range(topic_articles') \subseteq Range(topic_articles)
          /\ ~FeedsDone => api_calls' \subseteq api_calls]_vars

\* C13 witness: a topic with keywords, a key configured, and feeds that
\* gave 5 articles between them: the topic is finished and fetch_news_api
\* was not called.
C13_Witness ==
    /\ pc = "topic"
    /\ topic_i = 2
    /\ news_api_key # NoKey
    /\ Topics[1].keywords # <<>>
    /\ Len(Topics[1].rss_feeds) = 2
    /\ Len(results["NBA"]) = 5
    /\ \E k \in 1..5 : results["NBA"][k].source = "f2"
    /\ api_calls = {}
    /\ dropped = {}

-----------------------------------------------------------------------------
(* Claims about seen_ids, checked under SpecFetch *)

\* C14: no step takes an id out of seen_ids; the id of every article of the
\* results, and of every article the recency filter or the truncation left
\* out, is in seen_ids; and no article of the results has the id of an
\* article left out.
C14_SeenIdsOnlyGrow ==
    /\ [](/\ dropped \subseteq seen_ids
          /\ \A n \in DOMAIN results : \A a \in Range(results[n]) :
                a.id \in seen_ids /\ a.id \notin dropped)
    /\ [][/\ seen_ids \subseteq seen_ids'
          /\ dropped \subseteq dropped'
          /\ (exc' # "" \/ topic_i' = topic_i + 1) => seen_ids' = seen_ids]_vars

\* C14 witness: the recency filter left an article out of the first topic;
\* under the second topic an entry with the same id and a recent date was
\* built and was not kept.
C14_Witness ==
    /\ pc = "entries"
    /\ topic_i = 2
    /\ article.id \in dropped
    /\ article.published >= cutoff_date
    /\ articles = <<>>
    /\ \A k \in 1..Len(results["NBA"]) : results["NBA"][k].id # article.id

=============================================================================
